---- MODULE Spec2Model ----
(***************************************************************************)
(* KeyboardFocusTracker / GlobalKeyboardMouseInteractionTracker of         *)
(* ckeditor5-utils (shared-singleton design, src/unnamed/part_001).        *)
(*                                                                         *)
(* Every tracker object, every global interaction tracker object and every *)
(* focus tracker object is modelled with its fields; every handler of the  *)
(* code is one action that runs to completion (the UI thread is single     *)
(* threaded), including the change notifications it fires.                 *)
(***************************************************************************)
EXTENDS Integers, FiniteSets, Sequences, TLC

\* ------------------------------------------------------------------ bounds
MaxTrackers == 3
NumFocusTrackers == 1
NumElements == 2
NumKeys == 2
MaxTimers == 2

Trackers == 1..MaxTrackers
GlobalTrackers == 1..MaxTrackers
FocusTrackers == 1..NumFocusTrackers
Elements == 1..NumElements
Keys == 1..NumKeys
Null == 0

MouseEvents == {"mouseleave", "pointerleave", "mouseenter", "pointerenter"}

VARIABLES
    status,                  \* per KeyboardFocusTracker: "none" | "alive" | "destroyed"
    isFocusedUsingKeyboard,  \* KeyboardFocusTracker.isFocusedUsingKeyboard
    globalInteractionTracker,\* KeyboardFocusTracker._globalInteractionTracker (object id)
    focusTracker,            \* KeyboardFocusTracker.focusTracker (object id)
    G,                       \* the GlobalKeyboardMouseInteractionTracker objects
    G_instance,              \* static _instance (Null or object id)
    G_totalInstances,        \* static _totalInstances
    F,                       \* the FocusTracker objects
    keyHeld,                 \* environment: a keydown was dispatched, no keyup since
    heldFor,                 \* environment: the live trackers that were alive at the
                             \*   last keydown, if no keyup was dispatched since
    switchStep,              \* environment: how far the run keydown, focus(a), blur(a),
                             \*   focus(b) has got with the operations that ran last
    lastEvent,               \* environment: the operation that ran last
    P                        \* the per-instance design (keyboardfocustracker.ts): one
                             \*   tracker, its focus tracker, the timers and the keys

vars == << status, isFocusedUsingKeyboard, globalInteractionTracker, focusTracker,
           G, G_instance, G_totalInstances, F, keyHeld, heldFor, switchStep,
           lastEvent, P >>

\* The variables of the shared-singleton design.
sharedVars == << status, isFocusedUsingKeyboard, globalInteractionTracker,
                 focusTracker, G, G_instance, G_totalInstances, F, keyHeld,
                 heldFor, switchStep, lastEvent >>

\* The trackers that were constructed and not destroyed.
Alive == {t \in Trackers : status[t] = "alive"}

\* The operation that ran last: its kind and the focus tracker it was applied
\* to (Null where it has none).
Ev(type, f) == [type |-> type, f |-> f]

\* ----------------------------------------------------- observable / emitter
\* ObservableMixin: assigning a property fires change:<name> only when the
\* value differs from the stored one.
Changed(old, new) == old # new

\* A GlobalKeyboardMouseInteractionTracker object.  mounted: the document
\* listeners of its _domEmitter are attached.  onMouseMoved / onKeyPressed:
\* the trackers whose callback is registered on change:isMouseMoved /
\* change:isKeyPressed.
NoGlobal ==
    [ isKeyPressed |-> FALSE, isMouseMoved |-> FALSE, mounted |-> FALSE,
      onMouseMoved |-> {}, onKeyPressed |-> {} ]

\* A FocusTracker object.  blurTimeout: the deferred reset scheduled by a blur
\* is pending.  onFocusedElement: the trackers registered on
\* change:focusedElement.  listening: the focus tracker still listens to its
\* elements (it was not destroyed).
NewFocusTracker ==
    [ focusedElement |-> Null, isFocused |-> FALSE, blurTimeout |-> FALSE,
      onFocusedElement |-> {}, listening |-> TRUE ]

\* ------------------------------------------------ KeyboardFocusTracker rules
\* _watchMouseMoved that leaves the attribution alone.
watchMouseMoved_Ignored(old, mouseMoved) ==
    old

\* _watchMouseMoved: value of isFocusedUsingKeyboard after the callback.
watchMouseMoved(old, mouseMoved) ==
    IF mouseMoved THEN FALSE ELSE old

\* _watchIsKeyPressed without its test of the new value.
watchIsKeyPressed_Unguarded(old, isKeyPressed, isFocused) ==
    isFocused

\* _watchIsKeyPressed: value of isFocusedUsingKeyboard after the callback.
watchIsKeyPressed(old, isKeyPressed, isFocused) ==
    IF isKeyPressed THEN isFocused ELSE old

\* _watchChangeFocusedElement that does not look at focusedElement.
watchChangeFocusedElement_NoElement(focusedElement, isMouseMoved, isKeyPressed) ==
    ~isMouseMoved /\ isKeyPressed

\* _watchChangeFocusedElement that does not look at isMouseMoved.
watchChangeFocusedElement_NoMouse(focusedElement, isMouseMoved, isKeyPressed) ==
    focusedElement # Null /\ isKeyPressed

\* _watchChangeFocusedElement: value of isFocusedUsingKeyboard after the callback.
watchChangeFocusedElement(focusedElement, isMouseMoved, isKeyPressed) ==
    focusedElement # Null /\ ~isMouseMoved /\ isKeyPressed

\* ------------------------------------------- document handlers of one object
handleMouseMoved(g) == [g EXCEPT !.isMouseMoved = TRUE]

handleResetKeyPress(g) == [g EXCEPT !.isKeyPressed = FALSE, !.isMouseMoved = FALSE]

\* keydown listener that does not reset isMouseMoved.
handleKeydown_KeepsMouse(g) == [g EXCEPT !.isKeyPressed = TRUE]

handleKeydown(g) == [g EXCEPT !.isMouseMoved = FALSE, !.isKeyPressed = TRUE]

\* The value of a tracker's isFocusedUsingKeyboard after object g went from
\* record old to record new by one document handler that assigns isMouseMoved
\* first and isKeyPressed second (keydown), or only one of them.
AfterGlobalChange(t, old, new, mouseFirst) ==
    LET v0 == isFocusedUsingKeyboard[t]
        byMouse(v) == IF Changed(old.isMouseMoved, new.isMouseMoved) /\ t \in old.onMouseMoved
                      THEN watchMouseMoved(v, new.isMouseMoved) ELSE v
        byKey(v)   == IF Changed(old.isKeyPressed, new.isKeyPressed) /\ t \in old.onKeyPressed
                      THEN watchIsKeyPressed(v, new.isKeyPressed, F[focusTracker[t]].isFocused)
                      ELSE v
    IN IF mouseFirst THEN byKey(byMouse(v0)) ELSE byMouse(byKey(v0))

\* A document event reaches every object whose listeners are mounted: newG
\* holds the objects after their handler ran, and the callbacks registered on
\* the changed properties have run.
Dispatch(newG, mouseFirst) ==
       /\ G' = newG
       /\ isFocusedUsingKeyboard' =
            [t \in Trackers |->
                IF globalInteractionTracker[t] = Null
                THEN isFocusedUsingKeyboard[t]
                ELSE AfterGlobalChange(t, G[globalInteractionTracker[t]],
                                       newG[globalInteractionTracker[t]], mouseFirst)]

\* The per-instance design before its tracker is constructed.
\* status, isFocusedUsingKeyboard, isKeyPressed: the tracker.  mounted: the
\* document listeners of its _domEmitter are attached.  focusTracker: the
\* focus tracker it was given; registered: _watchFocusTracker is registered on
\* change:focusedElement.  timers: the pending setTimeout callbacks in the
\* order they were scheduled ("keydown": the callback of the keydown listener,
\* "blur": the deferred reset of the focus tracker).  down: the keys that are
\* physically down.  keys: the keys whose
\* keydown the tracker's listener handled and that were not released since.
\* lastEvent: the operation that ran last.
P_Initial ==
    [ status |-> "none", isFocusedUsingKeyboard |-> FALSE, isKeyPressed |-> FALSE,
      mounted |-> FALSE,
      focusTracker |-> [focusedElement |-> Null, isFocused |-> FALSE,
                        registered |-> FALSE],
      timers |-> << >>, down |-> {}, keys |-> {}, lastEvent |-> "init" ]

\* ------------------------------------------------------------------- state
Init ==
    /\ status = [t \in Trackers |-> "none"]
    /\ isFocusedUsingKeyboard = [t \in Trackers |-> FALSE]
    /\ globalInteractionTracker = [t \in Trackers |-> Null]
    /\ focusTracker = [t \in Trackers |-> Null]
    /\ G = [g \in GlobalTrackers |-> NoGlobal]
    /\ G_instance = Null
    /\ G_totalInstances = 0
    /\ F = [f \in FocusTrackers |-> NewFocusTracker]
    /\ keyHeld = FALSE
    /\ heldFor = {}
    /\ switchStep = 0
    /\ lastEvent = Ev("init", Null)
    /\ P = P_Initial

\* --------------------------------------------------------- document events
Keydown ==
    /\ Dispatch([g \in GlobalTrackers |->
                    IF G[g].mounted THEN handleKeydown(G[g]) ELSE G[g]], TRUE)
    /\ keyHeld' = TRUE
    /\ heldFor' = Alive
    /\ switchStep' = 1
    /\ lastEvent' = Ev("keydown", Null)
    /\ UNCHANGED << status, globalInteractionTracker, focusTracker,
                    G_instance, G_totalInstances, F, P >>

Keyup ==
    /\ Dispatch([g \in GlobalTrackers |->
                    IF G[g].mounted THEN handleResetKeyPress(G[g]) ELSE G[g]], FALSE)
    /\ keyHeld' = FALSE
    /\ heldFor' = {}
    /\ switchStep' = 0
    /\ lastEvent' = Ev("keyup", Null)
    /\ UNCHANGED << status, globalInteractionTracker, focusTracker,
                    G_instance, G_totalInstances, F, P >>

Mouse(kind) ==
    /\ Dispatch([g \in GlobalTrackers |->
                    IF G[g].mounted THEN handleMouseMoved(G[g]) ELSE G[g]], TRUE)
    /\ lastEvent' = Ev("mouse", Null)
    /\ switchStep' = 0
    /\ UNCHANGED << status, globalInteractionTracker, focusTracker,
                    G_instance, G_totalInstances, F, keyHeld, heldFor, P >>

\* ------------------------------------- GlobalKeyboardMouseInteractionTracker
\* The class as a whole: its objects and its two static fields.
GlobalClass == [objs |-> G, inst |-> G_instance, total |-> G_totalInstances]

\* new GlobalKeyboardMouseInteractionTracker(): the state of the class after
\* the constructor and the object the new-expression evaluates to (a
\* constructor that returns an object yields that object).  fresh is the
\* identity of the object being constructed.
G_constructor(c, fresh) ==
    LET c1 == [c EXCEPT !.total = c.total + 1]
    IN IF c1.inst # Null
       THEN [class |-> c1, obj |-> c1.inst]
       ELSE [class |-> [c1 EXCEPT !.inst = fresh,
                                  !.objs[fresh] = [NoGlobal EXCEPT !.mounted = TRUE]],
             obj |-> fresh]

\* destroy() that forgets this.stopListening().
G_teardown_NoStopListening(g) ==
    [g EXCEPT !.mounted = FALSE, !.isKeyPressed = FALSE, !.isMouseMoved = FALSE]

\* destroy() that forgets this._domEmitter.stopListening().
G_teardown_KeepsListeners(g) ==
    [g EXCEPT !.onMouseMoved = {}, !.onKeyPressed = {},
              !.isKeyPressed = FALSE, !.isMouseMoved = FALSE]

\* The part of destroy() that tears the object down: stopListening() drops
\* every callback registered on the object, _domEmitter.stopListening()
\* unmounts the document listeners, both signals are reset.
G_teardown(g) ==
    [g EXCEPT !.onMouseMoved = {}, !.onKeyPressed = {}, !.mounted = FALSE,
              !.isKeyPressed = FALSE, !.isMouseMoved = FALSE]

\* destroy() called on object this: the state of the class afterwards.
RECURSIVE G_destroy(_, _)
G_destroy(c, this) ==
    LET c1 == [c EXCEPT !.objs[this] = G_teardown(c.objs[this]),
                        !.total = c.total - 1]
    IN IF c1.total = 0 /\ c1.inst # Null
       THEN [G_destroy(c1, c1.inst) EXCEPT !.inst = Null]
       ELSE c1

\* ---------------------------------------------------- KeyboardFocusTracker
\* Trackers are constructed in the order of their identities.
NextTracker == CHOOSE t \in Trackers :
                  /\ status[t] = "none"
                  /\ \A u \in Trackers : u < t => status[u] # "none"

\* The focus trackers a constructor can be given: one that a tracker already
\* uses, or the first one that none uses (focus trackers that no tracker was
\* given are interchangeable).
UsedFocusTrackers == {focusTracker[t] : t \in {u \in Trackers : status[u] # "none"}}

\* new KeyboardFocusTracker( f )
Construct(f) ==
    /\ \E t \in Trackers : status[t] = "none"
    /\ \A h \in FocusTrackers : h < f => h \in UsedFocusTrackers
    /\ LET t == NextTracker
           r == G_constructor(GlobalClass, t)
           g == r.obj
       IN /\ status' = [status EXCEPT ![t] = "alive"]
          /\ isFocusedUsingKeyboard' = [isFocusedUsingKeyboard EXCEPT ![t] = FALSE]
          /\ globalInteractionTracker' = [globalInteractionTracker EXCEPT ![t] = g]
          /\ G' = [r.class.objs EXCEPT ![g].onMouseMoved = @ \cup {t},
                                       ![g].onKeyPressed = @ \cup {t}]
          /\ G_instance' = r.class.inst
          /\ G_totalInstances' = r.class.total
          /\ focusTracker' = [focusTracker EXCEPT ![t] = f]
          /\ F' = [F EXCEPT ![f].onFocusedElement = @ \cup {t}]
          /\ lastEvent' = Ev("construct", f)
    /\ switchStep' = 0
    /\ UNCHANGED << keyHeld, heldFor, P >>

\* destroy() without its final reset.
DestroyedValue_Kept(old) == old

\* destroy() that also destroys the focus tracker it was given.
ReleaseFocusTracker_Destroyed(fr, t) ==
    [fr EXCEPT !.onFocusedElement = {}, !.listening = FALSE]

\* The focus tracker after destroy() of tracker t: only the tracker's
\* change:focusedElement callback is taken off.
ReleaseFocusTracker(fr, t) ==
    [fr EXCEPT !.onFocusedElement = @ \ {t}]

\* The value destroy() leaves in isFocusedUsingKeyboard.
DestroyedValue(old) == FALSE

\* tracker.destroy(), on a tracker that was not destroyed before.  The tracker
\* itself listens to nothing, so its own stopListening() changes nothing; its
\* change:isKeyPressed callback is not removed by off() and goes only with
\* the stopListening() of the object's destroy().
Destroy(t) ==
    /\ status[t] = "alive"
    /\ LET f == focusTracker[t]
           g == globalInteractionTracker[t]
           c0 == [GlobalClass EXCEPT !.objs[g].onMouseMoved = @ \ {t}]
           c == G_destroy(c0, g)
       IN /\ F' = [F EXCEPT ![f] = ReleaseFocusTracker(@, t)]
          /\ G' = c.objs
          /\ G_instance' = c.inst
          /\ G_totalInstances' = c.total
          /\ isFocusedUsingKeyboard' =
                [isFocusedUsingKeyboard EXCEPT ![t] = DestroyedValue(@)]
          /\ lastEvent' = Ev("destroy", f)
    /\ status' = [status EXCEPT ![t] = "destroyed"]
    /\ switchStep' = 0
    /\ heldFor' = heldFor \ {t}
    /\ UNCHANGED << globalInteractionTracker, focusTracker, keyHeld, P >>

\* ------------------------------------------------------------ FocusTracker
\* The focusedElement of f goes from old to new: every registered tracker's
\* _watchChangeFocusedElement runs when the value changed.
AfterFocusChange(t, f, old, new) ==
    IF Changed(old, new) /\ t \in F[f].onFocusedElement
    THEN watchChangeFocusedElement(new,
                                   G[globalInteractionTracker[t]].isMouseMoved,
                                   G[globalInteractionTracker[t]].isKeyPressed)
    ELSE isFocusedUsingKeyboard[t]

SetFocusedElement(f, new, focused) ==
    /\ F' = [F EXCEPT ![f].focusedElement = new, ![f].isFocused = focused,
                      ![f].blurTimeout = FALSE]
    /\ isFocusedUsingKeyboard' =
          [t \in Trackers |-> AfterFocusChange(t, f, F[f].focusedElement, new)]

\* a focus event on element e registered in focus tracker f
Focus(f, e) ==
    /\ IF F[f].listening
       THEN SetFocusedElement(f, e, TRUE)
       ELSE UNCHANGED << F, isFocusedUsingKeyboard >>
    /\ lastEvent' = Ev("focus", f)
    /\ switchStep' = IF switchStep = 1 /\ Changed(F[f].focusedElement, e) THEN 2
                     ELSE IF switchStep = 3 /\ lastEvent.f = f
                                             /\ Changed(F[f].focusedElement, e) THEN 4
                     ELSE 0
    /\ UNCHANGED << status, globalInteractionTracker, focusTracker, G, G_instance,
                    G_totalInstances, keyHeld, heldFor, P >>

\* a blur event on the focused element of f: the reset is deferred
Blur(f) ==
    /\ F[f].focusedElement # Null
    /\ F' = [F EXCEPT ![f].blurTimeout = F[f].listening \/ @]
    /\ lastEvent' = Ev("blur", f)
    /\ switchStep' = IF switchStep = 2 /\ lastEvent.f = f THEN 3 ELSE 0
    /\ UNCHANGED << status, isFocusedUsingKeyboard, globalInteractionTracker,
                    focusTracker, G, G_instance, G_totalInstances, keyHeld, heldFor,
                    P >>

\* the deferred reset of a blur runs
BlurTimeout(f) ==
    /\ F[f].blurTimeout
    /\ SetFocusedElement(f, Null, FALSE)
    /\ lastEvent' = Ev("blurTimeout", f)
    /\ switchStep' = 0
    /\ UNCHANGED << status, globalInteractionTracker, focusTracker, G, G_instance,
                    G_totalInstances, keyHeld, heldFor, P >>

Next ==
    \/ \E f \in FocusTrackers : Construct(f)
    \/ \E t \in Trackers : Destroy(t)
    \/ Keydown
    \/ Keyup
    \/ \E kind \in MouseEvents : Mouse(kind)
    \/ \E f \in FocusTrackers, e \in Elements : Focus(f, e)
    \/ \E f \in FocusTrackers : Blur(f)
    \/ \E f \in FocusTrackers : BlurTimeout(f)

Spec == Init /\ [][Next]_vars

\* The same program in an environment that delivers no mouse or pointer event.
NextKeyboard ==
    \/ \E f \in FocusTrackers : Construct(f)
    \/ \E t \in Trackers : Destroy(t)
    \/ Keydown
    \/ Keyup
    \/ \E f \in FocusTrackers, e \in Elements : Focus(f, e)
    \/ \E f \in FocusTrackers : Blur(f)
    \/ \E f \in FocusTrackers : BlurTimeout(f)

SpecKeyboard == Init /\ [][NextKeyboard]_vars

\* =================================================== per-instance design
\* src/packages/ckeditor5-utils/src/keyboardfocustracker.ts: every tracker
\* mounts its own document listeners, and the keydown listener defers the
\* update of isFocusedUsingKeyboard with setTimeout.
\*

\* The timers without the pending deferred reset of the focus tracker
\* (clearTimeout).
ClearBlurTimeout(timers) == SelectSeq(timers, LAMBDA x : x # "blur")

\* _watchFocusTracker
P_watchFocusTracker(p, focusedElement) ==
    [p EXCEPT !.isFocusedUsingKeyboard = focusedElement # Null /\ p.isKeyPressed]

\* The focus tracker assigns focusedElement, then isFocused; the tracker's
\* callback runs when focusedElement changed and it is registered.
P_SetFocusedElement(p, new, focused) ==
    LET q == IF Changed(p.focusTracker.focusedElement, new) /\ p.focusTracker.registered
             THEN P_watchFocusTracker(p, new) ELSE p
    IN [q EXCEPT !.focusTracker.focusedElement = new,
                 !.focusTracker.isFocused = focused]

\* keydown listener that updates isFocusedUsingKeyboard at once.
P_keydown_Sync(p) ==
    [p EXCEPT !.isKeyPressed = TRUE,
              !.isFocusedUsingKeyboard = p.focusTracker.isFocused]

\* keydown listener: the update of isFocusedUsingKeyboard is scheduled.
P_keydown(p) ==
    [p EXCEPT !.isKeyPressed = TRUE, !.timers = Append(@, "keydown")]

\* keyup listener
P_keyup(p) == [p EXCEPT !.isKeyPressed = FALSE]

\* the callback the keydown listener gave to setTimeout
P_deferred(p) ==
    [p EXCEPT !.isFocusedUsingKeyboard = p.focusTracker.isFocused]

\* destroy()
P_destroy(p) ==
    [p EXCEPT !.isFocusedUsingKeyboard = FALSE, !.isKeyPressed = FALSE,
              !.focusTracker.registered = FALSE, !.mounted = FALSE]

\* new KeyboardFocusTracker( focusTracker )
P_Construct ==
    /\ P.status = "none"
    /\ P' = [P EXCEPT !.status = "alive", !.isFocusedUsingKeyboard = FALSE,
                      !.isKeyPressed = FALSE, !.focusTracker.registered = TRUE,
                      !.mounted = TRUE, !.keys = {}, !.lastEvent = "construct"]
    /\ UNCHANGED sharedVars

\* tracker.destroy(), on a tracker that was not destroyed before
P_Destroy ==
    /\ P.status = "alive"
    /\ P' = [P_destroy(P) EXCEPT !.status = "destroyed", !.keys = {},
                                 !.lastEvent = "destroy"]
    /\ UNCHANGED sharedVars

\* keydown of key k on the document
P_Keydown(k) ==
    /\ P.mounted => Len(P.timers) < MaxTimers
    /\ P' = IF P.mounted
            THEN [P_keydown(P) EXCEPT !.down = @ \cup {k}, !.keys = @ \cup {k},
                                      !.lastEvent = "keydown"]
            ELSE [P EXCEPT !.down = @ \cup {k}, !.lastEvent = "keydown"]
    /\ UNCHANGED sharedVars

\* keyup of key k, which was down, on the document
P_Keyup(k) ==
    /\ k \in P.down
    /\ P' = IF P.mounted
            THEN [P_keyup(P) EXCEPT !.down = @ \ {k}, !.keys = @ \ {k},
                                    !.lastEvent = "keyup"]
            ELSE [P EXCEPT !.down = @ \ {k}, !.lastEvent = "keyup"]
    /\ UNCHANGED sharedVars

\* a focus event on element e registered in the focus tracker
P_Focus(e) ==
    /\ P' = [P_SetFocusedElement(P, e, TRUE) EXCEPT
                !.timers = ClearBlurTimeout(@),
                !.lastEvent = IF Changed(P.focusTracker.focusedElement, e)
                              THEN "focus" ELSE "refocus"]
    /\ UNCHANGED sharedVars

\* a blur event on the focused element: the reset is deferred
P_Blur ==
    /\ P.focusTracker.focusedElement # Null
    /\ Len(ClearBlurTimeout(P.timers)) < MaxTimers
    /\ P' = [P EXCEPT !.timers = Append(ClearBlurTimeout(@), "blur"),
                      !.lastEvent = "blur"]
    /\ UNCHANGED sharedVars

\* the timer scheduled first runs
P_RunTimer ==
    /\ P.timers # << >>
    /\ P' = IF Head(P.timers) = "keydown"
            THEN [P_deferred(P) EXCEPT !.timers = Tail(@), !.lastEvent = "deferred"]
            ELSE [P_SetFocusedElement(P, Null, FALSE) EXCEPT
                     !.timers = Tail(@), !.lastEvent = "blurTimeout"]
    /\ UNCHANGED sharedVars

NextPerInstance ==
    \/ P_Construct
    \/ P_Destroy
    \/ \E k \in Keys : P_Keydown(k)
    \/ \E k \in Keys : P_Keyup(k)
    \/ \E e \in Elements : P_Focus(e)
    \/ P_Blur
    \/ P_RunTimer

SpecPerInstance == Init /\ [][NextPerInstance]_vars

TypeOK ==
    /\ status \in [Trackers -> {"none", "alive", "destroyed"}]
    /\ isFocusedUsingKeyboard \in [Trackers -> BOOLEAN]
    /\ G_instance \in GlobalTrackers \cup {Null}
    /\ G_totalInstances \in -MaxTrackers..MaxTrackers

\* ================================================================== claims
\* The objects whose document listeners are mounted.
Mounted == {g \in GlobalTrackers : G[g].mounted}

\* The focus tracker of tracker t reports a focused element.
HasFocusedElement(t) == F[focusTracker[t]].focusedElement # Null

\* The object tracker t holds.
Held(t) == G[globalInteractionTracker[t]]

\* C1: while at least one tracker is alive exactly one set of document
\* listeners is mounted, and it is the one of the object the alive trackers
\* hold; when the last tracker is destroyed no listeners are mounted.
C1_ListenersFollowRefCount ==
    /\ Alive # {} => /\ Cardinality(Mounted) = 1
                     /\ \A t \in Alive : Held(t).mounted
    /\ Alive = {} => Mounted = {}

\* C2: a focus event that makes the tracker's focus tracker notify a new
\* focused element, arriving after a keydown the tracker was alive for and
\* before any keyup, leaves isFocusedUsingKeyboard true.
C2_FocusDuringKeyHold ==
    [][ \A f \in FocusTrackers, e \in Elements :
          ( Focus(f, e) /\ Changed(F[f].focusedElement, e) ) =>
              \A t \in Alive \cap heldFor :
                  focusTracker[t] = f => isFocusedUsingKeyboard'[t] ]_vars

\* C3: a mouse or pointer enter/leave event delivered while a live tracker has
\* isFocusedUsingKeyboard = TRUE leaves it FALSE.
C3_MouseCancels ==
    [][ \A t \in Trackers :
          ( /\ status[t] = "alive"
            /\ isFocusedUsingKeyboard[t]
            /\ lastEvent'.type = "mouse"
            /\ status'[t] = "alive" )
          => ~isFocusedUsingKeyboard'[t] ]_vars

\* C4: a destroyed tracker has isFocusedUsingKeyboard = FALSE, in every state
\* after its destroy(), whatever ran since.
C4_DestroyedStaysFalse ==
    \A t \in Trackers : status[t] = "destroyed" => ~isFocusedUsingKeyboard[t]

\* C4 witness: a tracker was destroyed, and a tracker constructed after it on
\* the same focus tracker has had a focus attributed to the keyboard.
C4_Witness ==
    \E t, u \in Trackers :
        /\ status[t] = "destroyed"
        /\ status[u] = "alive"
        /\ t < u
        /\ focusTracker[u] = focusTracker[t]
        /\ isFocusedUsingKeyboard[u]

\* C5: a keydown delivered while no key is held, the focus tracker of a live
\* tracker has a focused element and isFocusedUsingKeyboard is FALSE makes
\* isFocusedUsingKeyboard TRUE in the same step.
C5_KeydownAttributesHeldFocus ==
    [][ \A t \in Trackers :
          ( /\ status[t] = "alive"
            /\ ~keyHeld
            /\ HasFocusedElement(t)
            /\ ~isFocusedUsingKeyboard[t]
            /\ lastEvent'.type = "keydown" )
          => isFocusedUsingKeyboard'[t] ]_vars

\* C6: in the run keydown, focus(a), blur(a), focus(b) with nothing else in
\* between, isFocusedUsingKeyboard is TRUE after the focus of a, after the
\* blur of a and after the focus of b.
C6_SwitchKeepsAttribution ==
    switchStep \in {2, 3, 4} =>
        \A t \in Alive :
            focusTracker[t] = lastEvent.f => isFocusedUsingKeyboard[t]

\* C7 as stated: for a live tracker isFocusedUsingKeyboard is TRUE exactly
\* when an element is focused, isMouseMoved is FALSE and isKeyPressed is TRUE.
C7_Original ==
    \A t \in Alive :
        isFocusedUsingKeyboard[t] <=>
            ( /\ HasFocusedElement(t)
              /\ ~Held(t).isMouseMoved
              /\ Held(t).isKeyPressed )

\* C7 amended: for a live tracker isFocusedUsingKeyboard is TRUE only if an
\* element is focused and the shared isMouseMoved is FALSE.
C7_OnlyIfFocusedAndNoMouse ==
    \A t \in Alive :
        isFocusedUsingKeyboard[t] =>
            ( /\ HasFocusedElement(t)
              /\ ~Held(t).isMouseMoved )

\* C7 witness: a live tracker keeps the attribution after the key was
\* released, so isKeyPressed is FALSE while isFocusedUsingKeyboard is TRUE.
C7_Witness ==
    \E t \in Alive :
        /\ isFocusedUsingKeyboard[t]
        /\ Held(t).mounted
        /\ ~Held(t).isKeyPressed
        /\ HasFocusedElement(t)

\* C8: a keyup event changes no tracker's isFocusedUsingKeyboard.
C8_KeyupKeepsAttribution ==
    [][ lastEvent'.type = "keyup" =>
            isFocusedUsingKeyboard' = isFocusedUsingKeyboard ]_vars

\* C8 witness: a keyup was just handled by mounted listeners and a live
\* tracker still has the attribution it got during the key hold.
C8_Witness ==
    /\ lastEvent.type = "keyup"
    /\ \E t \in Alive : isFocusedUsingKeyboard[t] /\ Held(t).mounted

\* C9: when every constructed tracker has been destroyed the singleton slot is
\* empty, and a tracker constructed when no other is alive holds an object
\* whose document listeners are mounted.
C9_FreshSingletonEveryCycle ==
    /\ Alive = {} => G_instance = Null
    /\ ( lastEvent.type = "construct" /\ Cardinality(Alive) = 1 )
          => \A t \in Alive : Held(t).mounted

\* C10: _totalInstances is the number of trackers constructed and not yet
\* destroyed.
C10_RefCountIsAliveCount ==
    G_totalInstances = Cardinality(Alive)

\* C11: once destroy() of a tracker has returned, none of its callbacks is
\* registered on change:isMouseMoved or change:isKeyPressed of any global
\* tracker object, nor on change:focusedElement of any focus tracker.
C11_DestroyUnsubscribesAll ==
    \A t \in Trackers :
        status[t] = "destroyed" =>
            /\ \A g \in GlobalTrackers :
                  t \notin G[g].onMouseMoved /\ t \notin G[g].onKeyPressed
            /\ \A f \in FocusTrackers : t \notin F[f].onFocusedElement

\* C11 witness: a tracker was just destroyed while another tracker, registered
\* on the same focus tracker, is alive and still registered there.
C11_Witness ==
    /\ lastEvent.type = "destroy"
    /\ \E t, u \in Trackers :
          /\ status[t] = "destroyed"
          /\ status[u] = "alive"
          /\ focusTracker[u] = focusTracker[t]
          /\ u \in F[focusTracker[u]].onFocusedElement

\* C12: destroying one tracker while another one is alive leaves isKeyPressed
\* and isMouseMoved of the object the other one holds unchanged.
C12_DestroyKeepsSignals ==
    [][ \A t \in Trackers :
          ( lastEvent'.type = "destroy" /\ Destroy(t) ) =>
              \A u \in Alive \ {t} :
                  /\ Held(u)'.isKeyPressed = Held(u).isKeyPressed
                  /\ Held(u)'.isMouseMoved = Held(u).isMouseMoved ]_vars

\* C13: destroy() of a tracker leaves focusedElement and isFocused of its focus
\* tracker unchanged, and a focus event on a focus tracker whose tracker was
\* destroyed is still recorded: focusedElement becomes the element.
C13_FocusTrackerUntouched ==
    [][ /\ lastEvent'.type = "destroy" =>
              \A t \in Trackers :
                  ( status[t] = "alive" /\ status'[t] = "destroyed" /\ Destroy(t) ) =>
                      /\ F'[focusTracker[t]].focusedElement
                            = F[focusTracker[t]].focusedElement
                      /\ F'[focusTracker[t]].isFocused = F[focusTracker[t]].isFocused
        /\ lastEvent'.type = "focus" =>
              \A f \in {lastEvent'.f}, e \in Elements :
                  ( /\ \E t \in Trackers : status[t] = "destroyed" /\ focusTracker[t] = f
                    /\ Focus(f, e) )
                  => ( F'[f].focusedElement = e /\ F'[f].isFocused ) ]_vars

\* C13 witness: the only tracker constructed was destroyed and its focus
\* tracker has recorded a focus event since.
C13_Witness ==
    /\ lastEvent.type = "focus"
    /\ Alive = {}
    /\ \E t \in Trackers :
          /\ status[t] = "destroyed"
          /\ focusTracker[t] = lastEvent.f
          /\ F[lastEvent.f].focusedElement # Null
          /\ F[lastEvent.f].isFocused

\* C14: an object whose document listeners are mounted has both signals FALSE
\* when it is mounted; a keydown leaves isKeyPressed TRUE and isMouseMoved
\* FALSE, a keyup leaves both FALSE, a mouse or pointer event leaves
\* isMouseMoved TRUE and isKeyPressed as it was, and no other operation
\* changes either signal while the listeners stay mounted.
C14_TransitionTable ==
    [][ \A g \in GlobalTrackers :
          /\ ( ~G[g].mounted /\ G'[g].mounted )
                => ( ~G'[g].isKeyPressed /\ ~G'[g].isMouseMoved )
          /\ ( G[g].mounted /\ G'[g].mounted ) =>
                /\ lastEvent'.type = "keydown"
                      => ( G'[g].isKeyPressed /\ ~G'[g].isMouseMoved )
                /\ lastEvent'.type = "keyup"
                      => ( ~G'[g].isKeyPressed /\ ~G'[g].isMouseMoved )
                /\ lastEvent'.type = "mouse"
                      => ( G'[g].isMouseMoved
                           /\ G'[g].isKeyPressed = G[g].isKeyPressed )
                /\ lastEvent'.type \notin {"keydown", "keyup", "mouse"}
                      => ( G'[g].isKeyPressed = G[g].isKeyPressed
                           /\ G'[g].isMouseMoved = G[g].isMouseMoved ) ]_vars

\* C14 witness: the mouse moved during a key hold and a keydown was handled
\* after it: the mounted object reports the key and no mouse movement.
C14_Witness ==
    /\ lastEvent.type = "keydown"
    /\ \E g \in Mounted : G[g].isKeyPressed /\ ~G[g].isMouseMoved
    /\ \E t \in Alive : HasFocusedElement(t) /\ ~isFocusedUsingKeyboard[t]
                        /\ Held(t).mounted

\* C15: when a focus tracker notifies a new focused element (an element on a
\* focus event, none when the deferred reset of a blur runs), every live
\* tracker constructed on it gets isFocusedUsingKeyboard = (an element is
\* focused) /\ ~isMouseMoved /\ isKeyPressed, with the signals of the object
\* it holds as they are at that moment.
C15_FocusRule ==
    [][ /\ lastEvent'.type = "focus" =>
              \A f \in {lastEvent'.f} :
                  Changed(F[f].focusedElement, F'[f].focusedElement) =>
                      \A t \in Alive :
                          focusTracker[t] = f =>
                              isFocusedUsingKeyboard'[t] =
                                  ( ~Held(t).isMouseMoved /\ Held(t).isKeyPressed )
        /\ lastEvent'.type = "blurTimeout" =>
              \A f \in {lastEvent'.f} :
                  Changed(F[f].focusedElement, Null) =>
                      \A t \in Alive :
                          focusTracker[t] = f => ~isFocusedUsingKeyboard'[t] ]_vars

\* C15 witness: a focus was just notified while a key was pressed and the
\* mouse had moved, so a live tracker was left FALSE by the rule.
C15_Witness ==
    /\ lastEvent.type = "focus"
    /\ \E t \in Alive :
          /\ focusTracker[t] = lastEvent.f
          /\ Held(t).mounted
          /\ Held(t).isKeyPressed
          /\ Held(t).isMouseMoved
          /\ HasFocusedElement(t)
          /\ ~isFocusedUsingKeyboard[t]

\* C18: all live trackers hold the object that is stored in the singleton
\* slot.
C18_AliveShareSingleton ==
    \A t \in Alive : globalInteractionTracker[t] = G_instance

\* C19: at most one global tracker object has its document listeners mounted.
C19_AtMostOneMounted ==
    Cardinality(Mounted) <= 1

\* C19 witness: an object created after the first one was torn down has its
\* listeners mounted.
C19_Witness ==
    \E g \in Mounted : g > 1 /\ \E t \in Alive : globalInteractionTracker[t] = g

\* C16: in the per-instance design a keydown handled while the focus tracker
\* is focused leaves isFocusedUsingKeyboard as it was, and the deferred
\* callback of a keydown leaves it equal to focusTracker.isFocused as it is
\* when the callback runs.
C16_KeydownIsDeferred ==
    [][ /\ ( P'.lastEvent = "keydown" /\ P.status = "alive"
             /\ P.focusTracker.isFocused )
              => P'.isFocusedUsingKeyboard = P.isFocusedUsingKeyboard
        /\ P'.lastEvent = "deferred"
              => P'.isFocusedUsingKeyboard = P.focusTracker.isFocused ]_vars

\* C16 witness: the deferred callback of a keydown that found the focus
\* tracker focused has run on a live tracker and attributed the focus.
C16_Witness ==
    /\ P.lastEvent = "deferred"
    /\ P.status = "alive"
    /\ P.focusTracker.isFocused
    /\ P.isFocusedUsingKeyboard
    /\ P.isKeyPressed

\* C17: in the per-instance design a destroyed tracker has
\* isFocusedUsingKeyboard = FALSE and isKeyPressed = FALSE in every state
\* after its destroy().
C17_DestroyedStaysReset ==
    P.status = "destroyed" => ( ~P.isFocusedUsingKeyboard /\ ~P.isKeyPressed )

\* C20: while at least one key whose keydown the tracker handled is still
\* held, isKeyPressed is TRUE, and a focus notified then is attributed to the
\* keyboard.
C20_AnyKeyHeld ==
    ( P.status = "alive" /\ P.keys # {} ) =>
        /\ P.isKeyPressed
        /\ P.lastEvent = "focus" => P.isFocusedUsingKeyboard

\* C21: in the shared-singleton design every tracker whose
\* isFocusedUsingKeyboard is TRUE has a focus tracker that reports a focused
\* element and holds an object whose isMouseMoved is FALSE.
C21_AttributionNeedsFocusAndNoMouse ==
    \A t \in Trackers :
        isFocusedUsingKeyboard[t] =>
            /\ F[focusTracker[t]].focusedElement # Null
            /\ ~G[globalInteractionTracker[t]].isMouseMoved

\* C21 witness: a keydown was just handled by mounted listeners and left a
\* live tracker attributed to the keyboard, with an element focused and
\* isMouseMoved FALSE.
C21_Witness ==
    /\ lastEvent.type = "keydown"
    /\ \E t \in Alive :
          /\ isFocusedUsingKeyboard[t]
          /\ Held(t).mounted
          /\ Held(t).isKeyPressed
          /\ ~Held(t).isMouseMoved
          /\ HasFocusedElement(t)
====
